---- MODULE Spec2Model ----
(***************************************************************************)
(* Model of src/main.py: the render / hash / cluster pipeline that          *)
(* process_tier runs over one tier (a folder of HTML files).                *)
(*                                                                         *)
(* Every per-run variable is a function of the tier name, so that several  *)
(* process_tier runs can share the one file system (files, dirs).          *)
(***************************************************************************)
EXTENDS Integers, Sequences, FiniteSets, TLC

\* ---------------------------------------------------------------- bounds
\* Largest number of .html files a tier holds.
MaxDocs == 3
\* The max_workers argument of process_tier (its default is 4).
max_workers == 2
\* Number of bits of a fingerprint (64 + 64 in the program).
HashLen == 8

\* ----------------------------------------------------- program constants
\* DBSCAN(eps=0.25, ...) as the fraction EpsNum / EpsDen.
EpsNum == 1
EpsDen == 4
\* DBSCAN(min_samples=2).
min_samples == 2
\* The label DBSCAN gives to noise points.
NoiseLabel == -1

\* ------------------------------------------------------------- os.path
\* A path is the sequence of its components.
join(dir, name) == Append(dir, name)

dirname(p) == SubSeq(p, 1, Len(p) - 1)

basename(p) == p[Len(p)]

\* str.endswith
endswith(s, suffix) ==
    /\ Len(s) >= Len(suffix)
    /\ SubSeq(s, Len(s) - Len(suffix) + 1, Len(s)) = suffix

\* p is dir itself or lies below it (what shutil.rmtree(dir) removes).
Under(p, dir) == Len(p) >= Len(dir) /\ SubSeq(p, 1, Len(dir)) = dir

\* --------------------------------------------------------------- inputs
ROOT_DIR == <<"./clones">>

OUTPUT_DIR == <<"./visual_groups">>

\* The i-th HTML file name of a tier; names sort in the order of i.
FileName(i) == ToString(i) \o ".html"

\* A file of the tier folder that is no HTML file.
OtherFile == "README.md"

Rank(f) == CHOOSE i \in 1..(MaxDocs + 1) : FileName(i) = f

\* sorted(...) of a set of HTML file names.
RECURSIVE sorted(_)
sorted(S) ==
    IF S = {} THEN <<>>
    ELSE LET f == CHOOSE g \in S : \A h \in S : Rank(g) <= Rank(h)
         IN  <<f>> \o sorted(S \ {f})

\* The folder listings process_tier may find: FileName(1..n) and OtherFile.
Listings == { {FileName(i) : i \in 1..n} \cup {OtherFile} : n \in 0..MaxDocs }

\* Fingerprints: HashLen bits, here those whose first k bits are set.
Bits(k) == [i \in 1..HashLen |-> IF i <= k THEN 1 ELSE 0]

Fingerprints == { Bits(k) : k \in {0, HashLen \div 4, 2 * (HashLen \div 4)} }

\* ------------------------------------------------------------ variables
VARIABLES
    tier_dir,        \* tier -> the names os.listdir(tier_path) returns
    save_groups,     \* tier -> the save_groups argument
    pc,              \* tier -> position of process_tier
    tasks,           \* tier -> list of (full_path, screenshot_path)
    task_pc,         \* tier -> task index -> position of the render task
    driver,          \* tier -> task index -> state of the task's Chrome driver
    task_ret,        \* tier -> task index -> what the task returned or raised
    results,         \* tier -> the list pool.map returned
    screenshot_map,  \* tier -> list of (filename, path), in insertion order
    hash_ret,        \* tier -> item index -> what _hash_item returned
    hashed,          \* tier -> the list compute_hashes returned
    labels,          \* tier -> the labels of fit_predict
    groups,          \* tier -> list of (label, files), in insertion order
    final_groups,    \* tier -> the list process_tier builds and returns
    gi,              \* tier -> index of the group being persisted
    fi,              \* tier -> index of the next file to copy in that group
    ci,              \* tier -> index of the next screenshot to delete
    ret,             \* tier -> the value process_tier returned
    files,           \* the files on disk
    dirs,            \* the directories on disk
    log              \* the failures printed so far

vars == <<tier_dir, save_groups, pc, tasks, task_pc, driver, task_ret, results,
          screenshot_map, hash_ret, hashed, labels, groups, final_groups,
          gi, fi, ci, ret, files, dirs, log>>

inputVars == <<tier_dir, save_groups>>

renderVars == <<tasks, task_pc, driver, task_ret, results, screenshot_map>>

hashVars == <<hash_ret, hashed>>

clusterVars == <<labels, groups, final_groups, gi, fi>>

Tiers == DOMAIN pc

\* ------------------------------------------------------- process_tier
tier_path(t) == join(ROOT_DIR, t)

\* Mutant of tier_output_dir: the directory does not depend on the tier name.
tier_output_dir_Shared(t) ==
    IF save_groups[t] THEN join(OUTPUT_DIR, "tier")
    ELSE join(<<"/tmp">>, "temp_")

\* tier_output_dir of lines 70-73; tier_name is t.
tier_output_dir(t) ==
    IF save_groups[t] THEN join(OUTPUT_DIR, t)
    ELSE join(<<"/tmp">>, "temp_" \o t)

html_files(t) == sorted({f \in tier_dir[t] : endswith(f, ".html")})

\* The task list of lines 78-82.
BuildTasks(t) ==
    LET hs == html_files(t)
    IN  [i \in 1..Len(hs) |->
            <<join(tier_path(t), hs[i]),
              join(tier_output_dir(t), hs[i] \o ".png")>>]

\* Values of task_ret: not yet set, the (filename, path) pair, None, or an
\* exception that left the task.
Unset == [kind |-> "unset", filename |-> "", path |-> <<>>]

None == [kind |-> "None", filename |-> "", path |-> <<>>]

Raised == [kind |-> "raised", filename |-> "", path |-> <<>>]

Pair(filename, path) == [kind |-> "pair", filename |-> filename, path |-> path]

\* process_tier up to the hand-over to the pool (lines 67-87).
Start(t) ==
    /\ pc[t] = "start"
    /\ dirs' = dirs \cup {tier_output_dir(t)}
    /\ tasks' = [tasks EXCEPT ![t] = BuildTasks(t)]
    /\ task_pc' = [task_pc EXCEPT ![t] = [i \in 1..Len(BuildTasks(t)) |-> "queued"]]
    /\ driver' = [driver EXCEPT ![t] = [i \in 1..Len(BuildTasks(t)) |-> "none"]]
    /\ task_ret' = [task_ret EXCEPT ![t] = [i \in 1..Len(BuildTasks(t)) |-> Unset]]
    /\ pc' = [pc EXCEPT ![t] = "rendering"]
    /\ UNCHANGED <<inputVars, results, screenshot_map, hashVars, clusterVars,
                   ci, ret, files, log>>

\* --------------------------------------------- render_and_screenshot_task
\* The tasks a worker of the pool is running.
InFlight(t) ==
    {i \in DOMAIN task_pc[t] : task_pc[t][i] \notin {"queued", "done"}}

\* Mutant of WorkerFree: a pool that takes every queued task at once.
WorkerFree_Unbounded(t) == TRUE

\* A worker of Pool(processes=max_workers) is free to take the next task.
WorkerFree(t) == Cardinality(InFlight(t)) < max_workers

\* A free worker takes the next task of the queue.
TaskStart(t, i) ==
    /\ pc[t] = "rendering"
    /\ task_pc[t][i] = "queued"
    /\ \A j \in 1..(i - 1) : task_pc[t][j] # "queued"
    /\ WorkerFree(t)
    /\ task_pc' = [task_pc EXCEPT ![t][i] = "makedirs"]
    /\ UNCHANGED <<inputVars, pc, tasks, driver, task_ret, results, screenshot_map,
                   hashVars, clusterVars, ci, ret, files, dirs, log>>

\* Mutant of TaskExcept: a failed render is reported and run again.
TaskExcept_Retry(t, i) ==
    /\ task_pc' = [task_pc EXCEPT ![t][i] = "makedirs"]
    /\ task_ret' = task_ret
    /\ log' = log \cup {<<"Rendering failed", tasks[t][i][1]>>}

\* The except clause of lines 36-38: report, return None, go to finally.
TaskExcept(t, i) ==
    /\ task_pc' = [task_pc EXCEPT ![t][i] = "finally"]
    /\ task_ret' = [task_ret EXCEPT ![t][i] = None]
    /\ log' = log \cup {<<"Rendering failed", tasks[t][i][1]>>}

\* Line 30: os.makedirs(dirname(screenshot_path), exist_ok=True).
TaskMakedirs(t, i) ==
    /\ pc[t] = "rendering"
    /\ task_pc[t][i] = "makedirs"
    /\ \/ /\ dirs' = dirs \cup {dirname(tasks[t][i][2])}
          /\ task_pc' = [task_pc EXCEPT ![t][i] = "create"]
          /\ UNCHANGED <<task_ret, log>>
       \/ /\ TaskExcept(t, i)
          /\ UNCHANGED dirs
    /\ UNCHANGED <<inputVars, pc, tasks, driver, results, screenshot_map,
                   hashVars, clusterVars, ci, ret, files>>

\* Line 31: driver = create_chrome_driver().
TaskCreateDriver(t, i) ==
    /\ pc[t] = "rendering"
    /\ task_pc[t][i] = "create"
    /\ \/ /\ driver' = [driver EXCEPT ![t][i] = "live"]
          /\ task_pc' = [task_pc EXCEPT ![t][i] = "get"]
          /\ UNCHANGED <<task_ret, log>>
       \/ /\ TaskExcept(t, i)
          /\ UNCHANGED driver
    /\ UNCHANGED <<inputVars, pc, tasks, results, screenshot_map,
                   hashVars, clusterVars, ci, ret, files, dirs>>

\* Lines 32-33: driver.get(...) and the settle delay.
TaskGet(t, i) ==
    /\ pc[t] = "rendering"
    /\ task_pc[t][i] = "get"
    /\ \/ /\ task_pc' = [task_pc EXCEPT ![t][i] = "save"]
          /\ UNCHANGED <<task_ret, log>>
       \/ TaskExcept(t, i)
    /\ UNCHANGED <<inputVars, pc, tasks, driver, results, screenshot_map,
                   hashVars, clusterVars, ci, ret, files, dirs>>

\* Lines 34-35: driver.save_screenshot(screenshot_path) and the return.
TaskSaveScreenshot(t, i) ==
    /\ pc[t] = "rendering"
    /\ task_pc[t][i] = "save"
    /\ \/ /\ files' = files \cup {tasks[t][i][2]}
          /\ task_pc' = [task_pc EXCEPT ![t][i] = "finally"]
          /\ task_ret' = [task_ret EXCEPT ![t][i] =
                             Pair(basename(tasks[t][i][1]), tasks[t][i][2])]
          /\ UNCHANGED log
       \/ /\ TaskExcept(t, i)
          /\ UNCHANGED files
    /\ UNCHANGED <<inputVars, pc, tasks, driver, results, screenshot_map,
                   hashVars, clusterVars, ci, ret, dirs>>

\* Mutant of TaskFinally: quit() is called on the success path only.
TaskFinally_QuitOnSuccessOnly(t, i) ==
    /\ pc[t] = "rendering"
    /\ task_pc[t][i] = "finally"
    /\ task_pc' = [task_pc EXCEPT ![t][i] = "done"]
    /\ IF driver[t][i] = "live" /\ task_ret[t][i].kind = "pair"
       THEN driver' = [driver EXCEPT ![t][i] = "quit"]
       ELSE UNCHANGED driver
    /\ UNCHANGED <<inputVars, pc, tasks, task_ret, results, screenshot_map,
                   hashVars, clusterVars, ci, ret, files, dirs, log>>

\* Lines 39-41: finally: if driver: driver.quit().  An exception of quit()
\* leaves the task in place of its return value; whether Chrome is gone then
\* is not known, the driver is "quit_failed".
TaskFinally(t, i) ==
    /\ pc[t] = "rendering"
    /\ task_pc[t][i] = "finally"
    /\ task_pc' = [task_pc EXCEPT ![t][i] = "done"]
    /\ IF driver[t][i] = "live"
       THEN \/ /\ driver' = [driver EXCEPT ![t][i] = "quit"]
               /\ UNCHANGED task_ret
            \/ /\ driver' = [driver EXCEPT ![t][i] = "quit_failed"]
               /\ task_ret' = [task_ret EXCEPT ![t][i] = Raised]
       ELSE UNCHANGED <<driver, task_ret>>
    /\ UNCHANGED <<inputVars, pc, tasks, results, screenshot_map,
                   hashVars, clusterVars, ci, ret, files, dirs, log>>

\* ------------------------------------------------------------ dictionaries
\* A dict is the sequence of its (key, value) pairs in insertion order.
HasKey(d, k) == \E n \in 1..Len(d) : d[n][1] = k

DictGet(d, k) == d[CHOOSE n \in 1..Len(d) : d[n][1] = k][2]

\* d[k] = v: a key already there keeps its place.
DictSet(d, k, v) ==
    IF HasKey(d, k)
    THEN [n \in 1..Len(d) |-> IF d[n][1] = k THEN <<k, v>> ELSE d[n]]
    ELSE Append(d, <<k, v>>)

\* The dict comprehension of lines 92-94 over results[from..].
RECURSIVE ScreenshotMapFrom(_, _, _)
ScreenshotMapFrom(res, n, d) ==
    IF n > Len(res) THEN d
    ELSE ScreenshotMapFrom(res, n + 1,
            IF res[n].kind = "pair"
            THEN DictSet(d, res[n].filename, res[n].path)
            ELSE d)

ScreenshotMap(res) == ScreenshotMapFrom(res, 1, <<>>)

\* ------------------------------------------------- pool.map (lines 87-98)
AllTasksDone(t) == \A i \in DOMAIN task_pc[t] : task_pc[t][i] = "done"

\* Values of hash_ret: not yet set, the (filename, combined) pair, or None.
HashUnset == [kind |-> "unset", filename |-> "", hash |-> <<>>]

HashNone == [kind |-> "None", filename |-> "", hash |-> <<>>]

HashPair(filename, combined) ==
    [kind |-> "pair", filename |-> filename, hash |-> combined]

\* Mutant of PoolMapReturn: the results are taken without waiting for the
\* tasks still running.
PoolMapReturn_Early(t) ==
    /\ pc[t] = "rendering"
    /\ \A i \in DOMAIN task_ret[t] : task_ret[t][i] # Raised
    /\ results' = [results EXCEPT ![t] = task_ret[t]]
    /\ screenshot_map' = [screenshot_map EXCEPT ![t] = ScreenshotMap(task_ret[t])]
    /\ IF ScreenshotMap(task_ret[t]) = <<>>
       THEN /\ pc' = [pc EXCEPT ![t] = "returned"]
            /\ ret' = [ret EXCEPT ![t] = <<>>]
            /\ UNCHANGED hash_ret
       ELSE /\ pc' = [pc EXCEPT ![t] = "hashing"]
            /\ hash_ret' = [hash_ret EXCEPT ![t] =
                   [n \in 1..Len(ScreenshotMap(task_ret[t])) |-> HashUnset]]
            /\ UNCHANGED ret
    /\ UNCHANGED <<inputVars, tasks, task_pc, driver, task_ret, hashed,
                   clusterVars, ci, files, dirs, log>>

\* pool.map returns the results in task order once every task has returned;
\* lines 92-98 follow: build screenshot_map, return [] when it is empty.
PoolMapReturn(t) ==
    /\ pc[t] = "rendering"
    /\ AllTasksDone(t)
    /\ \A i \in DOMAIN task_ret[t] : task_ret[t][i] # Raised
    /\ results' = [results EXCEPT ![t] = task_ret[t]]
    /\ screenshot_map' = [screenshot_map EXCEPT ![t] = ScreenshotMap(task_ret[t])]
    /\ IF ScreenshotMap(task_ret[t]) = <<>>
       THEN /\ pc' = [pc EXCEPT ![t] = "returned"]
            /\ ret' = [ret EXCEPT ![t] = <<>>]
            /\ UNCHANGED hash_ret
       ELSE /\ pc' = [pc EXCEPT ![t] = "hashing"]
            /\ hash_ret' = [hash_ret EXCEPT ![t] =
                   [n \in 1..Len(ScreenshotMap(task_ret[t])) |-> HashUnset]]
            /\ UNCHANGED ret
    /\ UNCHANGED <<inputVars, tasks, task_pc, driver, task_ret, hashed,
                   clusterVars, ci, files, dirs, log>>

\* pool.map re-raises the exception of a task once every task is done;
\* nothing in process_tier catches it.
PoolMapRaise(t) ==
    /\ pc[t] = "rendering"
    /\ AllTasksDone(t)
    /\ \E i \in DOMAIN task_ret[t] : task_ret[t][i] = Raised
    /\ pc' = [pc EXCEPT ![t] = "raised"]
    /\ UNCHANGED <<inputVars, renderVars, hashVars, clusterVars, ci, ret,
                   files, dirs, log>>

\* ------------------------------------------- compute_hashes (lines 46-62)
\* _hash_item on item n of list(screenshot_map.items()), run by a thread of
\* the executor: Image.open needs the file; any failure is reported and
\* gives None.
hash_item(t, n) ==
    /\ pc[t] = "hashing"
    /\ hash_ret[t][n] = HashUnset
    /\ \/ /\ screenshot_map[t][n][2] \in files
          /\ \E combined \in Fingerprints :
                hash_ret' = [hash_ret EXCEPT ![t][n] =
                                HashPair(screenshot_map[t][n][1], combined)]
          /\ UNCHANGED log
       \/ /\ hash_ret' = [hash_ret EXCEPT ![t][n] = HashNone]
          /\ log' = log \cup {<<"Hash error", <<screenshot_map[t][n][1]>>>>}
    /\ UNCHANGED <<inputVars, pc, renderVars, hashed, clusterVars, ci, ret,
                   files, dirs>>

\* Mutant of NotNone: the first None ends the list.
RECURSIVE NotNone_StopAtNone(_)
NotNone_StopAtNone(rs) ==
    IF rs = <<>> \/ Head(rs) = HashNone THEN <<>>
    ELSE <<Head(rs)>> \o NotNone_StopAtNone(Tail(rs))

\* [r for r in results if r is not None]
RECURSIVE NotNone(_)
NotNone(rs) ==
    IF rs = <<>> THEN <<>>
    ELSE (IF Head(rs) # HashNone THEN <<Head(rs)>> ELSE <<>>) \o NotNone(Tail(rs))

\* executor.map has every result; lines 62 and 101-104 follow.
ComputeHashesReturn(t) ==
    /\ pc[t] = "hashing"
    /\ \A n \in DOMAIN hash_ret[t] : hash_ret[t][n] # HashUnset
    /\ hashed' = [hashed EXCEPT ![t] = NotNone(hash_ret[t])]
    /\ IF NotNone(hash_ret[t]) = <<>>
       THEN /\ pc' = [pc EXCEPT ![t] = "returned"]
            /\ ret' = [ret EXCEPT ![t] = <<>>]
       ELSE /\ pc' = [pc EXCEPT ![t] = "clustering"]
            /\ UNCHANGED ret
    /\ UNCHANGED <<inputVars, renderVars, hash_ret, clusterVars, ci,
                   files, dirs, log>>

\* ------------------------------------- DBSCAN(metric='hamming').fit_predict
\* Number of positions where u and v differ.
hamming_diff(u, v) == Cardinality({k \in 1..Len(u) : u[k] # v[k]})

\* Mutant of within_eps: the radius is taken exclusive (distance < eps).
within_eps_Strict(u, v) == hamming_diff(u, v) * EpsDen < EpsNum * Len(u)

\* hamming(u, v) <= eps, the distance being the fraction of differing bits.
within_eps(u, v) == hamming_diff(u, v) * EpsDen <= EpsNum * Len(u)

neighborhood(X, i) == {j \in 1..Len(X) : within_eps(X[i], X[j])}

\* Mutant of is_core: a point does not count itself among its neighbours.
is_core_ExcludeSelf(X, i) ==
    Cardinality(neighborhood(X, i) \ {i}) >= min_samples

\* Mutant of is_core: one neighbour (the point itself) is enough.
is_core_AtLeastOne(X, i) == Cardinality(neighborhood(X, i)) >= 1

is_core(X, i) == Cardinality(neighborhood(X, i)) >= min_samples

\* Mutant of expand: the label goes to the seed and its direct neighbours
\* only, the cluster is not grown through them.
expand_NoChain(X, lab, todo, num) ==
    [n \in DOMAIN lab |->
        IF /\ lab[n] = NoiseLabel
           /\ \E v \in todo : n = v \/ n \in neighborhood(X, v)
        THEN num ELSE lab[n]]

\* Give label num to every point still unlabelled that the points of todo
\* reach through core points.
RECURSIVE expand(_, _, _, _)
expand(X, lab, todo, num) ==
    IF todo = {} THEN lab
    ELSE LET v == CHOOSE w \in todo : TRUE
         IN  IF lab[v] = NoiseLabel
             THEN LET lab2 == [lab EXCEPT ![v] = num]
                      push == IF is_core(X, v)
                              THEN {w \in neighborhood(X, v) : lab2[w] = NoiseLabel}
                              ELSE {}
                  IN  expand(X, lab2, (todo \ {v}) \cup push, num)
             ELSE expand(X, lab, todo \ {v}, num)

RECURSIVE dbscan_inner(_, _, _, _)
dbscan_inner(X, i, lab, num) ==
    IF i > Len(X) THEN lab
    ELSE IF lab[i] # NoiseLabel \/ ~is_core(X, i)
         THEN dbscan_inner(X, i + 1, lab, num)
         ELSE dbscan_inner(X, i + 1, expand(X, lab, {i}, num), num + 1)

fit_predict(X) == dbscan_inner(X, 1, [i \in 1..Len(X) |-> NoiseLabel], 0)

\* ------------------------------------------------ grouping (lines 106-118)
\* filenames, hashes = zip(*hashed)
Filenames(hs) == [n \in 1..Len(hs) |-> hs[n].filename]

Hashes(hs) == [n \in 1..Len(hs) |-> hs[n].hash]

\* groups.setdefault(label, []).append(filename) for n = from..
RECURSIVE GroupFrom(_, _, _, _)
GroupFrom(labs, names, n, g) ==
    IF n > Len(labs) THEN g
    ELSE GroupFrom(labs, names, n + 1,
            DictSet(g, labs[n],
                    Append(IF HasKey(g, labs[n]) THEN DictGet(g, labs[n]) ELSE <<>>,
                           names[n])))

\* Mutant of GroupByLabel: groups[label] = [filename], each label keeps only
\* its last file.
RECURSIVE GroupFrom_Overwrite(_, _, _, _)
GroupFrom_Overwrite(labs, names, n, g) ==
    IF n > Len(labs) THEN g
    ELSE GroupFrom_Overwrite(labs, names, n + 1, DictSet(g, labs[n], <<names[n]>>))

GroupByLabel_Overwrite(labs, names) == GroupFrom_Overwrite(labs, names, 1, <<>>)

GroupByLabel(labs, names) == GroupFrom(labs, names, 1, <<>>)

\* The files lists of groups.items(), what final_groups ends as.
GroupFiles(g) == [n \in 1..Len(g) |-> g[n][2]]

\* Lines 106-122: cluster, group by label; without save_groups the loop of
\* lines 121-127 only fills final_groups.
Cluster(t) ==
    /\ pc[t] = "clustering"
    /\ LET labs == fit_predict(Hashes(hashed[t]))
           g == GroupByLabel(labs, Filenames(hashed[t]))
       IN  /\ labels' = [labels EXCEPT ![t] = labs]
           /\ groups' = [groups EXCEPT ![t] = g]
           /\ IF save_groups[t]
              THEN /\ pc' = [pc EXCEPT ![t] = "persisting"]
                   /\ final_groups' = [final_groups EXCEPT ![t] = <<>>]
                   /\ gi' = [gi EXCEPT ![t] = 1]
                   /\ fi' = [fi EXCEPT ![t] = 0]
              ELSE /\ pc' = [pc EXCEPT ![t] = "cleanup"]
                   /\ final_groups' = [final_groups EXCEPT ![t] = GroupFiles(g)]
                   /\ UNCHANGED <<gi, fi>>
    /\ ci' = [ci EXCEPT ![t] = 1]
    /\ UNCHANGED <<inputVars, renderVars, hashVars, ret, files, dirs, log>>

\* --------------------------------------------- persisting (lines 120-127)
\* group_dir of line 124; i is the index enumerate() gives the group.
group_dir(t, i, label) ==
    join(tier_output_dir(t),
         "group_" \o (IF label # NoiseLabel THEN ToString(i) ELSE "noise"))

\* The group the loop of line 121 is at; enumerate() counts from 0.
CurGroupDir(t) == group_dir(t, gi[t] - 1, groups[t][gi[t]][1])

\* Lines 122-125 for one group: final_groups.append(files), then
\* os.makedirs(group_dir), which may raise.
PersistGroup(t) ==
    /\ pc[t] = "persisting"
    /\ fi[t] = 0
    /\ final_groups' = [final_groups EXCEPT ![t] = Append(@, groups[t][gi[t]][2])]
    /\ \/ /\ dirs' = dirs \cup {CurGroupDir(t)}
          /\ fi' = [fi EXCEPT ![t] = 1]
          /\ UNCHANGED pc
       \/ /\ pc' = [pc EXCEPT ![t] = "raised"]
          /\ UNCHANGED <<dirs, fi>>
    /\ UNCHANGED <<inputVars, renderVars, hashVars, labels, groups, gi, ci, ret,
                   files, log>>

\* Lines 126-127 for one file: shutil.copy(screenshot_map[file], ...), which
\* raises when the screenshot is gone and may raise otherwise; after the last
\* file of the last group the clean-up begins.
PersistCopy(t) ==
    /\ pc[t] = "persisting"
    /\ fi[t] >= 1
    /\ LET group_files == groups[t][gi[t]][2]
           file == group_files[fi[t]]
           src == DictGet(screenshot_map[t], file)
       IN  \/ /\ src \in files
              /\ files' = files \cup {join(CurGroupDir(t), file \o ".png")}
              /\ IF fi[t] < Len(group_files)
                 THEN /\ fi' = [fi EXCEPT ![t] = @ + 1]
                      /\ UNCHANGED <<gi, pc>>
                 ELSE /\ fi' = [fi EXCEPT ![t] = 0]
                      /\ gi' = [gi EXCEPT ![t] = @ + 1]
                      /\ pc' = [pc EXCEPT ![t] =
                             IF gi[t] < Len(groups[t]) THEN "persisting" ELSE "cleanup"]
           \/ /\ pc' = [pc EXCEPT ![t] = "raised"]
              /\ UNCHANGED <<files, fi, gi>>
    /\ UNCHANGED <<inputVars, renderVars, hashVars, labels, groups, final_groups,
                   ci, ret, dirs, log>>

\* ------------------------------------------------ cleanup (lines 129-143)
\* Mutant of CleanupRemove: a failing os.remove is not caught and leaves
\* process_tier.
CleanupRemove_Escalate(t) ==
    /\ pc[t] = "cleanup"
    /\ LET path == screenshot_map[t][ci[t]][2]
       IN  \/ /\ path \in files
              /\ files' = files \ {path}
              /\ ci' = [ci EXCEPT ![t] = @ + 1]
              /\ IF ci[t] < Len(screenshot_map[t])
                 THEN UNCHANGED <<pc, ret>>
                 ELSE IF save_groups[t]
                      THEN /\ pc' = [pc EXCEPT ![t] = "returned"]
                           /\ ret' = [ret EXCEPT ![t] = final_groups[t]]
                      ELSE /\ pc' = [pc EXCEPT ![t] = "rmtree"]
                           /\ UNCHANGED ret
              /\ UNCHANGED log
           \/ /\ log' = log \cup {<<"Could not delete", path>>}
              /\ pc' = [pc EXCEPT ![t] = "raised"]
              /\ UNCHANGED <<files, ci, ret>>
    /\ UNCHANGED <<inputVars, renderVars, hashVars, clusterVars, dirs>>

\* One turn of the loop of lines 130-134: os.remove(path), a failure is
\* reported and swallowed.  After the last path: return final_groups when
\* save_groups, else go on to the rmtree.
CleanupRemove(t) ==
    /\ pc[t] = "cleanup"
    /\ LET path == screenshot_map[t][ci[t]][2]
       IN  \/ /\ path \in files
              /\ files' = files \ {path}
              /\ UNCHANGED log
           \/ /\ log' = log \cup {<<"Could not delete", path>>}
              /\ UNCHANGED files
    /\ ci' = [ci EXCEPT ![t] = @ + 1]
    /\ IF ci[t] < Len(screenshot_map[t])
       THEN UNCHANGED <<pc, ret>>
       ELSE IF save_groups[t]
            THEN /\ pc' = [pc EXCEPT ![t] = "returned"]
                 /\ ret' = [ret EXCEPT ![t] = final_groups[t]]
            ELSE /\ pc' = [pc EXCEPT ![t] = "rmtree"]
                 /\ UNCHANGED ret
    /\ UNCHANGED <<inputVars, renderVars, hashVars, clusterVars, dirs>>

\* Lines 137-143: shutil.rmtree(tier_output_dir), a failure is reported and
\* swallowed; return final_groups.
CleanupRmtree(t) ==
    /\ pc[t] = "rmtree"
    /\ \/ /\ files' = {f \in files : ~Under(f, tier_output_dir(t))}
          /\ dirs' = {d \in dirs : ~Under(d, tier_output_dir(t))}
          /\ UNCHANGED log
       \/ /\ log' = log \cup {<<"Could not delete temp folder", tier_output_dir(t)>>}
          /\ UNCHANGED <<files, dirs>>
    /\ pc' = [pc EXCEPT ![t] = "returned"]
    /\ ret' = [ret EXCEPT ![t] = final_groups[t]]
    /\ UNCHANGED <<inputVars, renderVars, hashVars, clusterVars, ci>>

\* ------------------------------------------------------- specification
\* The state when process_tier is called for each tier of T.
InitFor(T) ==
    /\ tier_dir \in [T -> Listings]
    /\ save_groups \in [T -> BOOLEAN]
    /\ pc = [t \in T |-> "start"]
    /\ tasks = [t \in T |-> <<>>]
    /\ task_pc = [t \in T |-> <<>>]
    /\ driver = [t \in T |-> <<>>]
    /\ task_ret = [t \in T |-> <<>>]
    /\ results = [t \in T |-> <<>>]
    /\ screenshot_map = [t \in T |-> <<>>]
    /\ hash_ret = [t \in T |-> <<>>]
    /\ hashed = [t \in T |-> <<>>]
    /\ labels = [t \in T |-> <<>>]
    /\ groups = [t \in T |-> <<>>]
    /\ final_groups = [t \in T |-> <<>>]
    /\ gi = [t \in T |-> 0]
    /\ fi = [t \in T |-> 0]
    /\ ci = [t \in T |-> 0]
    /\ ret = [t \in T |-> <<>>]
    /\ files = {}
    /\ dirs = {}
    /\ log = {}

Init == InitFor({"tier1"})

Next ==
    \/ \E t \in Tiers : Start(t)
    \/ \E t \in Tiers : \E i \in DOMAIN task_pc[t] : TaskStart(t, i)
    \/ \E t \in Tiers : \E i \in DOMAIN task_pc[t] : TaskMakedirs(t, i)
    \/ \E t \in Tiers : \E i \in DOMAIN task_pc[t] : TaskCreateDriver(t, i)
    \/ \E t \in Tiers : \E i \in DOMAIN task_pc[t] : TaskGet(t, i)
    \/ \E t \in Tiers : \E i \in DOMAIN task_pc[t] : TaskSaveScreenshot(t, i)
    \/ \E t \in Tiers : \E i \in DOMAIN task_pc[t] : TaskFinally(t, i)
    \/ \E t \in Tiers : PoolMapReturn(t)
    \/ \E t \in Tiers : PoolMapRaise(t)
    \/ \E t \in Tiers : \E n \in DOMAIN hash_ret[t] : hash_item(t, n)
    \/ \E t \in Tiers : ComputeHashesReturn(t)
    \/ \E t \in Tiers : Cluster(t)
    \/ \E t \in Tiers : PersistGroup(t)
    \/ \E t \in Tiers : PersistCopy(t)
    \/ \E t \in Tiers : CleanupRemove(t)
    \/ \E t \in Tiers : CleanupRmtree(t)

Spec == Init /\ [][Next]_vars

\* ------------------------------------------------------ shared predicates
\* process_tier is over: it returned a value or an exception left it.
Finished(t) == pc[t] \in {"returned", "raised"}

\* The exception that left process_tier came out of pool.map.
RenderRaised(t) ==
    pc[t] = "raised" /\ \E i \in DOMAIN task_ret[t] : task_ret[t][i] = Raised

\* pool.map has returned its list to process_tier.
PoolReturned(t) == pc[t] \notin {"start", "rendering"} /\ ~RenderRaised(t)

\* The clean-up of lines 129-141 was carried out: the loop went over every
\* screenshot and, without save_groups, the rmtree was attempted.
CleanupRan(t) ==
    /\ ci[t] > Len(screenshot_map[t])
    /\ save_groups[t]
       \/ tier_output_dir(t) \notin dirs
       \/ <<"Could not delete temp folder", tier_output_dir(t)>> \in log

\* The screenshot files the render tasks of the tier write.
ScreenshotPaths(t) == {tasks[t][i][2] : i \in DOMAIN tasks[t]}

\* How often file name f occurs in a list of groups.
Occurrences(gs, f) ==
    Cardinality({<<g, k>> \in (1..Len(gs)) \X (1..MaxDocs + 1) :
                    k <= Len(gs[g]) /\ gs[g][k] = f})

\* ---------------------------------------------------------------- claims
\* C1: every execution of process_tier performs the Cleanup step before it
\* finishes, whichever stage ends the run (normal completion, zero render
\* successes, zero hash successes, a failure while clustering or persisting).
C1_CleanupAlwaysRuns == \A t \in Tiers : Finished(t) => CleanupRan(t)

\* C2: once process_tier has finished, no screenshot written during Rendering
\* is left on disk (the copies in the group folders apart), in particular
\* when every rendered screenshot fails to hash.  Stated for the runs that
\* return with no deletion failure reported.
C2_NoScreenshotLeft ==
    \A t \in Tiers :
        (pc[t] = "returned" /\ \A e \in log : e[1] # "Could not delete")
            => ScreenshotPaths(t) \cap files = {}

\* C3: without save_groups the temporary output directory of the tier is gone
\* once process_tier has finished, on every path (zero documents, zero render
\* successes, zero hash successes included).  Stated for the runs that return
\* with no deletion failure reported.
C3_TempDirRemoved ==
    \A t \in Tiers :
        (pc[t] = "returned" /\ ~save_groups[t] /\
         \A e \in log : e[1] # "Could not delete temp folder")
            => tier_output_dir(t) \notin dirs

\* C4: every document handed to the render pool appears in exactly one
\* RenderResult, its success pair or a failure marker carrying its identifier.
C4_OneResultPerDocument ==
    \A t \in Tiers :
        PoolReturned(t) =>
            \A i \in DOMAIN tasks[t] :
                Cardinality({j \in DOMAIN results[t] :
                    results[t][j].filename = basename(tasks[t][i][1])}) = 1

\* C5: a failure at any step of one render task (makedirs, starting the
\* renderer, navigation, screenshot, releasing the renderer) gives a failure
\* result for that document only: every task still yields its result,
\* process_tier does not raise and the document is in no returned group.
C5_RenderFailureIsolated ==
    \A t \in Tiers :
        \A i \in DOMAIN task_pc[t] :
            (pc[t] # "rendering" /\ task_pc[t][i] = "done"
             /\ task_ret[t][i].kind # "pair")
                => /\ ~RenderRaised(t)
                   /\ Len(results[t]) = Len(tasks[t])
                   /\ \A j \in DOMAIN results[t] : results[t][j] = task_ret[t][j]
                   /\ pc[t] = "returned"
                         => Occurrences(ret[t], basename(tasks[t][i][1])) = 0

\* C6: during Rendering at most max_workers render tasks are in flight, and
\* so at most max_workers renderer instances are live (created by a task that
\* has not yet called quit on it).
C6_AtMostWInFlight ==
    \A t \in Tiers :
        /\ Cardinality(InFlight(t)) <= max_workers
        /\ Cardinality({i \in DOMAIN driver[t] : driver[t][i] = "live"}) <= max_workers
        /\ \A i \in DOMAIN driver[t] : driver[t][i] = "live" => i \in InFlight(t)

\* C6 witness: the pool is saturated, a task waits in the queue.
C6_Witness ==
    \E t \in Tiers :
        /\ Cardinality({i \in DOMAIN driver[t] : driver[t][i] = "live"}) = max_workers
        /\ \E i \in DOMAIN task_pc[t] : task_pc[t][i] = "queued"

\* C7: a render task releases the renderer instance it created on every exit
\* path (success, navigation failure, screenshot failure): a task that has
\* returned holds no live instance, and when the pool returns no instance
\* created during the batch is live.
C7_DriverReleased ==
    \A t \in Tiers :
        /\ \A i \in DOMAIN task_pc[t] :
              (task_pc[t][i] = "done" /\ task_ret[t][i] # Raised)
                  => driver[t][i] \in {"none", "quit"}
        /\ PoolReturned(t) =>
              \A i \in DOMAIN driver[t] : driver[t][i] \in {"none", "quit"}

\* C7 witness: the pool returned a batch in which one task succeeded and
\* another failed after its renderer was started, both renderers released.
C7_Witness ==
    \E t \in Tiers :
        /\ PoolReturned(t)
        /\ \E i, j \in DOMAIN task_ret[t] :
              /\ task_ret[t][i].kind = "pair" /\ driver[t][i] = "quit"
              /\ task_ret[t][j] = None /\ driver[t][j] = "quit"

\* C8: compute_hashes returns exactly the (identifier, fingerprint) pairs of
\* the items that hashed, one per item and as _hash_item computed them; a
\* failing item is dropped and reported, the other items are untouched.
C8_HashesOfSuccesses ==
    \A t \in Tiers :
        pc[t] \notin {"start", "rendering", "hashing"} =>
            /\ \A n \in DOMAIN hash_ret[t] :
                  LET f == screenshot_map[t][n][1]
                      got == {m \in DOMAIN hashed[t] : hashed[t][m].filename = f}
                  IN  IF hash_ret[t][n].kind = "pair"
                      THEN /\ Cardinality(got) = 1
                           /\ \A m \in got : hashed[t][m] = hash_ret[t][n]
                           /\ hash_ret[t][n].filename = f
                           /\ <<"Hash error", <<f>>>> \notin log
                      ELSE /\ got = {}
                           /\ <<"Hash error", <<f>>>> \in log
            /\ \A m \in DOMAIN hashed[t] :
                  \E n \in DOMAIN hash_ret[t] : hashed[t][m] = hash_ret[t][n]

\* C8 witness: compute_hashes returned after an item failed and a later item
\* hashed.
C8_Witness ==
    \E t \in Tiers :
        /\ pc[t] \notin {"start", "rendering", "hashing"}
        /\ \E n, m \in DOMAIN hash_ret[t] :
              n < m /\ hash_ret[t][n] = HashNone /\ hash_ret[t][m].kind = "pair"
        /\ Len(hashed[t]) >= 1

\* The documents of the tier that rendered and hashed successfully.
HashedDocs(t) ==
    {hash_ret[t][n].filename : n \in {m \in DOMAIN hash_ret[t] : hash_ret[t][m].kind = "pair"}}

\* C9: the groups process_tier returns partition the successfully hashed
\* documents: each of them is in exactly one group, once, and no other
\* identifier is in any group.
C9_GroupsPartitionHashed ==
    \A t \in Tiers :
        pc[t] = "returned" =>
            /\ \A f \in HashedDocs(t) : Occurrences(ret[t], f) = 1
            /\ \A g \in DOMAIN ret[t] : \A k \in DOMAIN ret[t][g] :
                  ret[t][g][k] \in HashedDocs(t)

\* C9 witness: a run in which every document of a full tier hashed returned
\* two groups, one of them the noise group.
C9_Witness ==
    \E t \in Tiers :
        /\ pc[t] = "returned"
        /\ Len(ret[t]) = 2
        /\ NoiseLabel \in {labels[t][n] : n \in DOMAIN labels[t]}
        /\ Cardinality(HashedDocs(t)) = MaxDocs

\* The folder suffix the label stands for: the label, "noise" for noise.
LabelSuffix(label) == IF label # NoiseLabel THEN ToString(label) ELSE "noise"

\* C10: with save_groups the screenshot of each clustered document is copied
\* into the folder group_<label> of the tier, <label> being the label the
\* clusterer gave the document (group_noise for the noise label), whatever
\* the order in which the labels first occur.
C10_CopiedIntoLabelFolder ==
    \A t \in Tiers :
        (pc[t] = "returned" /\ save_groups[t]) =>
            \A n \in DOMAIN hashed[t] :
                join(join(tier_output_dir(t), "group_" \o LabelSuffix(labels[t][n])),
                     hashed[t][n].filename \o ".png") \in files

\* fit_predict has run for the tier: labels and groups are those of line 113
\* and lines 116-118.
Clustered(t) ==
    \/ pc[t] \in {"persisting", "cleanup", "rmtree"}
    \/ Finished(t) /\ labels[t] # <<>>

\* C11: when the fingerprints of the hashed documents are all bit-identical
\* and there are at least min_samples of them, the clustering step yields
\* exactly one cluster, not the noise group, holding all the documents.
C11_IdenticalOneCluster ==
    \A t \in Tiers :
        (/\ Clustered(t)
         /\ Len(hashed[t]) >= min_samples
         /\ \A n, m \in DOMAIN hashed[t] : hashed[t][n].hash = hashed[t][m].hash)
            => /\ \A n \in DOMAIN labels[t] : labels[t][n] = 0
               /\ Len(groups[t]) = 1
               /\ groups[t][1][1] # NoiseLabel
               /\ groups[t][1][2] = Filenames(hashed[t])
               /\ pc[t] = "returned" => ret[t] = <<Filenames(hashed[t])>>

\* C11 witness: a run over MaxDocs documents with one and the same
\* fingerprint returned them as its only group.
C11_Witness ==
    \E t \in Tiers :
        /\ pc[t] = "returned"
        /\ Len(hashed[t]) = MaxDocs
        /\ \A n \in DOMAIN hashed[t] : hashed[t][n].hash = hashed[t][1].hash
        /\ Len(ret[t]) = 1 /\ Len(ret[t][1]) = MaxDocs

\* C13: when fewer than min_samples documents hashed, every one of them is
\* labelled noise whatever its fingerprint; a single hashed document comes
\* back as one noise group.
C13_BelowMinPtsAllNoise ==
    \A t \in Tiers :
        (Clustered(t) /\ Len(hashed[t]) < min_samples)
            => /\ \A n \in DOMAIN labels[t] : labels[t][n] = NoiseLabel
               /\ groups[t] = <<<<NoiseLabel, Filenames(hashed[t])>>>>
               /\ pc[t] = "returned" => ret[t] = <<Filenames(hashed[t])>>

\* C13 witness: of a full tier only one document hashed, and the run returned
\* it alone in one group.
C13_Witness ==
    \E t \in Tiers :
        /\ pc[t] = "returned"
        /\ Len(tasks[t]) = MaxDocs
        /\ Len(hashed[t]) = 1
        /\ labels[t] = <<NoiseLabel>>
        /\ ret[t] = <<<<hashed[t][1].filename>>>>

\* ------------------------------------------- the clustering step on its own
\* Length of the fingerprints the clustering step is tried on below.
ProbeLen == 32

\* The fingerprint of len bits whose first k bits are set.
Vec(len, k) == [i \in 1..len |-> IF i <= k THEN 1 ELSE 0]

\* process_tier at line 106 for a tier of two documents that both rendered
\* and hashed, their fingerprints being any Vec(ProbeLen, a), Vec(ProbeLen, b).
InitEps ==
    /\ tier_dir = [t \in {"tier1"} |-> {FileName(1), FileName(2), OtherFile}]
    /\ save_groups = [t \in {"tier1"} |-> FALSE]
    /\ pc = [t \in {"tier1"} |-> "clustering"]
    /\ tasks = [t \in {"tier1"} |-> BuildTasks(t)]
    /\ task_pc = [t \in {"tier1"} |-> [i \in 1..2 |-> "done"]]
    /\ driver = [t \in {"tier1"} |-> [i \in 1..2 |-> "quit"]]
    /\ task_ret = [t \in {"tier1"} |->
          [i \in 1..2 |-> Pair(basename(tasks[t][i][1]), tasks[t][i][2])]]
    /\ results = task_ret
    /\ screenshot_map = [t \in {"tier1"} |-> ScreenshotMap(results[t])]
    /\ \E a, b \in 0..ProbeLen :
          hash_ret = [t \in {"tier1"} |->
              <<HashPair(FileName(1), Vec(ProbeLen, a)),
                HashPair(FileName(2), Vec(ProbeLen, b))>>]
    /\ hashed = [t \in {"tier1"} |-> NotNone(hash_ret[t])]
    /\ labels = [t \in {"tier1"} |-> <<>>]
    /\ groups = [t \in {"tier1"} |-> <<>>]
    /\ final_groups = [t \in {"tier1"} |-> <<>>]
    /\ gi = [t \in {"tier1"} |-> 0]
    /\ fi = [t \in {"tier1"} |-> 0]
    /\ ci = [t \in {"tier1"} |-> 0]
    /\ ret = [t \in {"tier1"} |-> <<>>]
    /\ files = {tasks["tier1"][i][2] : i \in 1..2}
    /\ dirs = {tier_output_dir("tier1")}
    /\ log = {}

\* Lines 106-143 of process_tier without save_groups.
NextEps ==
    \/ \E t \in Tiers : Cluster(t)
    \/ \E t \in Tiers : CleanupRemove(t)
    \/ \E t \in Tiers : CleanupRmtree(t)

SpecEps == InitEps /\ [][NextEps]_vars

\* Number of bits in which two fingerprints differ.
DiffBits(u, v) == Cardinality({k \in DOMAIN u : u[k] # v[k]})

\* C12: with eps = 0.25 and the normalised Hamming distance, two fingerprints
\* of L bits that differ in d bits are neighbours iff 4*d <= L: two such
\* documents alone form one cluster iff 4*d <= L and are both noise
\* otherwise; for L = 32, d = 7 gives neighbours and d = 9 does not.
C12_NeighboursIffWithinEps ==
    \A t \in Tiers :
        (Clustered(t) /\ Len(hashed[t]) = 2) =>
            LET u == hashed[t][1].hash
                v == hashed[t][2].hash
                d == DiffBits(u, v)
            IN  /\ labels[t] = <<0, 0>> <=> 4 * d <= Len(u)
                /\ labels[t] = <<NoiseLabel, NoiseLabel>> <=> 4 * d > Len(u)
                /\ (Len(u) = 32 /\ d = 7) => labels[t] = <<0, 0>>
                /\ (Len(u) = 32 /\ d = 9) => labels[t] = <<NoiseLabel, NoiseLabel>>

\* C12 witness: two 32-bit fingerprints differing in 7 bits were clustered
\* together.
C12_Witness ==
    \E t \in Tiers :
        /\ Clustered(t)
        /\ Len(hashed[t]) = 2
        /\ Len(hashed[t][1].hash) = 32
        /\ DiffBits(hashed[t][1].hash, hashed[t][2].hash) = 7
        /\ labels[t] = <<0, 0>>

\* A deletion of the tier's clean-up failed and was reported.
DeleteFailed(t) ==
    \E e \in log :
        /\ e[1] \in {"Could not delete", "Could not delete temp folder"}
        /\ Under(e[2], tier_output_dir(t))

\* C14: a failure to delete a screenshot or the temporary directory during
\* Cleanup is reported and swallowed: process_tier goes on and returns, what
\* it returns is the groups the clustering computed, and the deletion of the
\* other paths is still attempted.
C14_CleanupFailureSwallowed ==
    \A t \in Tiers :
        DeleteFailed(t) =>
            /\ pc[t] \in {"cleanup", "rmtree", "returned"}
            /\ pc[t] = "returned" =>
                  /\ ret[t] = GroupFiles(groups[t])
                  /\ ret[t] # <<>>
                  /\ \A n \in DOMAIN screenshot_map[t] :
                        \/ screenshot_map[t][n][2] \notin files
                        \/ <<"Could not delete", screenshot_map[t][n][2]>> \in log
                  /\ \/ save_groups[t]
                     \/ tier_output_dir(t) \notin dirs
                     \/ <<"Could not delete temp folder", tier_output_dir(t)>> \in log

\* C14 witness: a run with save_groups returned its groups although the
\* first screenshot could not be deleted; the second one was deleted.
C14_Witness ==
    \E t \in Tiers :
        /\ pc[t] = "returned"
        /\ save_groups[t]
        /\ Len(screenshot_map[t]) >= 2
        /\ <<"Could not delete", screenshot_map[t][1][2]>> \in log
        /\ screenshot_map[t][1][2] \in files
        /\ screenshot_map[t][2][2] \notin files
        /\ ret[t] # <<>>

\* The render of every document of the tier failed and was reported (true of
\* a tier with no document).
NoRenderSuccess(t) ==
    \A i \in DOMAIN tasks[t] : <<"Rendering failed", tasks[t][i][1]>> \in log

\* Screenshots were hashed and every one of them failed.
NoHashSuccess(t) ==
    /\ hash_ret[t] # <<>>
    /\ \A n \in DOMAIN hash_ret[t] : hash_ret[t][n] = HashNone

\* C15: for a tier with zero documents, and for a tier left with zero usable
\* documents after Rendering or after Hashing, process_tier returns an empty
\* sequence of groups and does not raise.
C15_NoUsableDocsReturnsEmpty ==
    \A t \in Tiers :
        (Finished(t) /\ (NoRenderSuccess(t) \/ NoHashSuccess(t)))
            => pc[t] = "returned" /\ ret[t] = <<>>

\* C16: within a tier no screenshot is deleted while a render task of the
\* tier may still write or a hash task may still read: every step that
\* deletes a screenshot of the tier is a step of its clean-up, taken when all
\* its render tasks and all its hash tasks are over.
C16_DeleteAfterAllTasks ==
    [][\A t \in Tiers :
          (\E p \in ScreenshotPaths(t) : p \in files /\ p \notin files')
              => /\ pc[t] \in {"cleanup", "rmtree"}
                 /\ AllTasksDone(t)
                 /\ \A n \in DOMAIN hash_ret[t] : hash_ret[t][n] # HashUnset]_vars

\* C16 witness: the clean-up of a full tier has deleted its first screenshot.
C16_Witness ==
    \E t \in Tiers :
        /\ pc[t] = "cleanup"
        /\ Len(tasks[t]) = MaxDocs
        /\ ci[t] >= 2
        /\ screenshot_map[t][1][2] \notin files

\* ------------------------------------------------- two tiers side by side
\* Largest number of .html files of a tier when two tiers are processed.
MaxDocsTwo == 1

\* process_tier is called for two tiers of distinct names; their steps
\* interleave in any order.
InitTwo ==
    /\ InitFor({"tier1", "tier2"})
    /\ \A t \in {"tier1", "tier2"} : Cardinality(tier_dir[t]) <= MaxDocsTwo + 1

SpecTwo == InitTwo /\ [][Next]_vars

\* All that one run of process_tier holds.
Local(t) ==
    <<pc[t], tasks[t], task_pc[t], driver[t], task_ret[t], results[t],
      screenshot_map[t], hash_ret[t], hashed[t], labels[t], groups[t],
      final_groups[t], gi[t], fi[t], ci[t], ret[t]>>

\* What the run returns when it runs alone with the same outcome for each of
\* its documents.
AloneResult(t) ==
    IF \A n \in DOMAIN hash_ret[t] : hash_ret[t][n].kind # "pair" THEN <<>>
    ELSE LET hs == NotNone(hash_ret[t])
         IN  GroupFiles(GroupByLabel(fit_predict(Hashes(hs)), Filenames(hs)))

\* The runs use disjoint directories, read only below their own one, find
\* their screenshots in place as long as they need them, and return what
\* they return alone.
TiersApart ==
    /\ \A t, u \in Tiers :
          t # u => ~Under(tier_output_dir(t), tier_output_dir(u))
    /\ \A t \in Tiers :
          /\ \A p \in ScreenshotPaths(t) : Under(p, tier_output_dir(t))
          /\ \A n \in DOMAIN screenshot_map[t] :
                /\ Under(screenshot_map[t][n][2], tier_output_dir(t))
                /\ pc[t] \in {"hashing", "clustering", "persisting"}
                      => screenshot_map[t][n][2] \in files
          /\ pc[t] = "returned" => ret[t] = AloneResult(t)

\* A step that creates or deletes a path does so below the directory of the
\* one run that takes the step.
StepStaysInOwnDir ==
    LET touched == (files \ files') \cup (files' \ files)
                   \cup (dirs \ dirs') \cup (dirs' \ dirs)
    IN  \A p \in touched :
            \E t \in Tiers :
                /\ Under(p, tier_output_dir(t))
                /\ Local(t)' # Local(t)
                /\ \A u \in Tiers \ {t} : Local(u)' = Local(u)

\* C17: two process_tier runs for tiers of distinct names, interleaved in any
\* way, do not interfere: neither writes, reads or deletes a file or
\* directory the other uses, and each returns the groups it returns alone.
C17_TiersDoNotInterfere == []TiersApart /\ [][StepStaysInOwnDir]_vars

\* C17 witness: the first run is about to remove its temporary directory
\* while the second, also without save_groups, is hashing its screenshot.
C17_Witness ==
    /\ Cardinality(Tiers) = 2
    /\ pc["tier1"] = "rmtree"
    /\ pc["tier2"] = "hashing"
    /\ ~save_groups["tier1"] /\ ~save_groups["tier2"]
    /\ \A n \in DOMAIN screenshot_map["tier2"] :
          screenshot_map["tier2"][n][2] \in files

\* ------------------------------------------- grouping by outcomes alone
\* The fingerprint compute_hashes got for each document that hashed.
FingerprintOf(t) ==
    [f \in HashedDocs(t) |->
        hash_ret[t][CHOOSE n \in DOMAIN hash_ret[t] :
                       hash_ret[t][n].kind = "pair" /\ hash_ret[t][n].filename = f].hash]

\* Two documents are neighbours: their fingerprints differ in at most
\* EpsNum / EpsDen of the bits.
Near(t, f, g) ==
    DiffBits(FingerprintOf(t)[f], FingerprintOf(t)[g]) * EpsDen
        <= EpsNum * Len(FingerprintOf(t)[f])

\* The documents linked to those of S by a chain of neighbours.
RECURSIVE Linked(_, _)
Linked(t, S) ==
    LET T == S \cup {g \in HashedDocs(t) : \E f \in S : Near(t, f, g)}
    IN  IF T = S THEN S ELSE Linked(t, T)

\* The grouping the per-document outcomes determine (min_samples = 2): the
\* chains of two or more documents, and the set of the others as noise.
OutcomeGrouping(t) ==
    LET clusters == {Linked(t, {f}) : f \in {g \in HashedDocs(t) : Linked(t, {g}) # {g}}}
        noise == {f \in HashedDocs(t) : Linked(t, {f}) = {f}}
    IN  clusters \cup (IF noise = {} THEN {} ELSE {noise})

\* The groups a run returned, as sets of documents.
ReturnedGrouping(t) ==
    {{ret[t][g][k] : k \in DOMAIN ret[t][g]} : g \in DOMAIN ret[t]}

\* The documents whose render task returned its pair, in task order.
RenderedInOrder(t) ==
    LET ok == SelectSeq(task_ret[t], LAMBDA r : r.kind = "pair")
    IN  [n \in DOMAIN ok |-> <<ok[n].filename, ok[n].path>>]

\* C18: for given render and hash outcomes of each document the grouping
\* process_tier returns (the members of each group, the noise group
\* included) is the same for every interleaving and completion order of the
\* render and hash tasks; screenshot_map is built only once all render
\* results are in, from the results in task order.
C18_GroupingIndependentOfOrder ==
    \A t \in Tiers :
        /\ pc[t] = "returned" =>
              /\ ReturnedGrouping(t) = OutcomeGrouping(t)
              /\ Len(ret[t]) = Cardinality(OutcomeGrouping(t))
        /\ pc[t] \in {"start", "rendering"} => screenshot_map[t] = <<>>
        /\ PoolReturned(t) =>
              /\ AllTasksDone(t)
              /\ screenshot_map[t] = RenderedInOrder(t)

\* C18 witness: three documents with three different fingerprints, linked
\* only through the middle one, came back as one group.
C18_Witness ==
    \E t \in Tiers :
        /\ pc[t] = "returned"
        /\ Cardinality({hashed[t][n].hash : n \in DOMAIN hashed[t]}) = 3
        /\ Len(ret[t]) = 1
        /\ Len(ret[t][1]) = 3

\* ------------------------------------------------- stages only narrow
\* How far a render task has come.
TaskRank(p) ==
    CASE p = "queued" -> 0 [] p = "makedirs" -> 1 [] p = "create" -> 2
      [] p = "get" -> 3 [] p = "save" -> 4 [] p = "finally" -> 5 [] p = "done" -> 6

\* The documents whose render task returned its pair.
RenderedDocs(t) ==
    {task_ret[t][i].filename : i \in {j \in DOMAIN task_ret[t] : task_ret[t][j].kind = "pair"}}

\* The documents that failed at a stage: render reported failed, or the
\* hash came back None.
FailedDocs(t) ==
    {basename(tasks[t][i][1]) :
        i \in {j \in DOMAIN tasks[t] : <<"Rendering failed", tasks[t][j][1]>> \in log}}
    \cup {screenshot_map[t][n][1] :
            n \in {m \in DOMAIN hash_ret[t] : hash_ret[t][m] = HashNone}}

\* The documents in a list of groups.
DocsIn(gs) == UNION {{gs[g][k] : k \in DOMAIN gs[g]} : g \in DOMAIN gs}

NarrowingState ==
    \A t \in Tiers :
        /\ \A i, j \in DOMAIN tasks[t] : tasks[t][i][1] = tasks[t][j][1] => i = j
        /\ \A n, m \in DOMAIN screenshot_map[t] :
              screenshot_map[t][n][1] = screenshot_map[t][m][1] => n = m
        /\ {screenshot_map[t][n][1] : n \in DOMAIN screenshot_map[t]} \subseteq RenderedDocs(t)
        /\ pc[t] # "hashing" => \A n \in DOMAIN hash_ret[t] : hash_ret[t][n] # HashUnset
        /\ \A n \in DOMAIN hash_ret[t] :
              hash_ret[t][n].kind # "unset" =>
                  /\ n \in DOMAIN screenshot_map[t]
                  /\ hash_ret[t][n].kind = "pair" =>
                        hash_ret[t][n].filename = screenshot_map[t][n][1]
        /\ {hashed[t][n].filename : n \in DOMAIN hashed[t]} \subseteq HashedDocs(t)
        /\ Len(labels[t]) \in {0, Len(hashed[t])}
        /\ DocsIn(GroupFiles(groups[t])) \subseteq HashedDocs(t)
        /\ DocsIn(final_groups[t]) \subseteq HashedDocs(t)
        /\ DocsIn(ret[t]) \subseteq HashedDocs(t) \cap RenderedDocs(t)
        /\ RenderedDocs(t) \cap
             {basename(tasks[t][i][1]) :
                i \in {j \in DOMAIN tasks[t] : <<"Rendering failed", tasks[t][j][1]>> \in log}} = {}
        /\ FailedDocs(t) \cap HashedDocs(t) = {}
        /\ FailedDocs(t) \cap DocsIn(ret[t]) = {}

NarrowingStep ==
    \A t \in Tiers :
        /\ tasks[t] # <<>> => tasks'[t] = tasks[t]
        /\ \A i \in DOMAIN task_pc[t] :
              /\ TaskRank(task_pc'[t][i]) >= TaskRank(task_pc[t][i])
              /\ task_pc[t][i] = "done" => task_ret'[t][i] = task_ret[t][i]
              /\ task_ret[t][i] = None => task_ret'[t][i].kind # "pair"
        /\ \A n \in DOMAIN hash_ret[t] :
              hash_ret[t][n] # HashUnset => hash_ret'[t][n] = hash_ret[t][n]
        /\ FailedDocs(t) \subseteq FailedDocs(t)'

\* C19: the stages only narrow the set of documents and never retry: a
\* document is rendered at most once and hashed at most once in a run, only
\* documents whose render succeeded are hashed, only documents whose hash
\* succeeded are clustered, and a document that failed at a stage is in no
\* later stage and not in the result.
C19_StagesOnlyNarrow == []NarrowingState /\ [][NarrowingStep]_vars

\* C19 witness: a run returned a group after one document failed to render
\* and another one, rendered, failed to hash.
C19_Witness ==
    \E t \in Tiers :
        /\ pc[t] = "returned"
        /\ ret[t] # <<>>
        /\ \E i \in DOMAIN task_ret[t] : task_ret[t][i] = None
        /\ \E n \in DOMAIN hash_ret[t] : hash_ret[t][n] = HashNone

\* ------------------------------------------------ what ends up on disk
\* The files of the tier's output tree that carry the name of document f.
FilesOf(t, f) ==
    {p \in files : Under(p, tier_output_dir(t)) /\ basename(p) = f \o ".png"}

\* Those of them that lie in a group folder.
PersistedCopies(t, f) ==
    {p \in FilesOf(t, f) :
        \E g \in DOMAIN groups[t] :
            dirname(p) = group_dir(t, g - 1, groups[t][g][1])}

\* The documents that rendered and whose hash came back None.
HashFailedDocs(t) ==
    {screenshot_map[t][n][1] :
        n \in {m \in DOMAIN hash_ret[t] : hash_ret[t][m] = HashNone}}

\* C20: with save_groups, distinct returned groups are persisted into distinct
\* group folders, every clustered document ends with exactly one persisted
\* copy, and a document that rendered but failed to hash ends with no file
\* on disk.  Stated for the runs that return with no deletion failure
\* reported.
C20_PersistedOnceFailedNone ==
    \A t \in Tiers :
        (pc[t] = "returned" /\ save_groups[t] /\ ~DeleteFailed(t)) =>
            /\ \A g, h \in DOMAIN groups[t] :
                  g # h => group_dir(t, g - 1, groups[t][g][1])
                             # group_dir(t, h - 1, groups[t][h][1])
            /\ \A f \in DocsIn(ret[t]) :
                  /\ Cardinality(PersistedCopies(t, f)) = 1
                  /\ FilesOf(t, f) = PersistedCopies(t, f)
            /\ \A f \in HashFailedDocs(t) : FilesOf(t, f) = {}

====
